---- MODULE Spec2Model ----
(***************************************************************************)
(* A model of the TLS 1.3 client of src/tls.py: the TLSClient object, its  *)
(* record-processing coroutine tls_response and the two packing methods    *)
(* the driver calls.  Primitive cryptography is symbolic: a secret is the  *)
(* tuple of the inputs it was derived from, a sealed record names the      *)
(* secret and sequence number it was sealed under.                         *)
(***************************************************************************)
EXTENDS Integers, Sequences, FiniteSets, TLC

\* ------------------------------------------------------------------ bounds
\* Number of records the server delivers besides the next message of its
\* first flight (ServerHello, EncryptedExtensions, Certificate,
\* CertificateVerify, Finished): reordered, repeated, malformed and
\* post-handshake records all count.
MaxUnexpected == 1
\* Number of records the driver obtains from pack_application_data and
\* pack_alert.
MaxPacks == 2

\* ---------------------------------------------------- enum values (tls.py)
\* class ContentType
ContentType == [invalid |-> 0, change_cipher_spec |-> 20, alert |-> 21,
                handshake |-> 22, application_data |-> 23]
\* class HandshakeType
HandshakeType == [client_hello |-> 1, server_hello |-> 2,
                  new_session_ticket |-> 4, end_of_early_data |-> 5,
                  encrypted_extensions |-> 8, certificate |-> 11,
                  certificate_request |-> 13, certificate_verify |-> 15,
                  finished |-> 20, key_update |-> 24, message_hash |-> 254]
\* class AlertLevel
AlertLevel == [warning |-> 1, fatal |-> 2]
\* class AlertDescription (the members the model's inputs use)
AlertDescription == [close_notify |-> 0, handshake_failure |-> 40,
                     decrypt_error |-> 51, user_canceled |-> 90]
\* class KeyUpdateRequest
KeyUpdateRequest == [update_not_requested |-> 0, update_requested |-> 1]

\* -------------------------------------------------------- symbolic values
\* A traffic secret: the label of the Derive-Secret call, the shared key of
\* the key scheduler and the transcript it was taken over.
NoSecret == [label |-> "none", shared |-> 0, ctx |-> <<>>]
\* verify_data: HMAC under the finished key of a secret over a transcript;
\* flip = 1 is the same value with one bit flipped.
NoVerifyData == [sec |-> NoSecret, ctx |-> <<>>, flip |-> 0]
\* An attribute that was never assigned (reading it raises AttributeError).
NoCipher == [secret |-> NoSecret, seq |-> 0]

\* A handshake message: type, a body variant, and (for Finished) verify_data.
Message(ht, v, vd) == [ht |-> ht, v |-> v, vd |-> vd]
\* A non-handshake content: v is the content's bytes read as a number.
Bytes(v) == [ht |-> 0, v |-> v, vd |-> NoVerifyData]

\* client_hello_pack(...) as built by TLSClient.__init__
client_hello_data == Message(HandshakeType.client_hello, 0, NoVerifyData)

\* level.pack() + description.pack(), the two bytes read as a number
AlertPayload(level, description) == Bytes(level * 256 + description)

\* key_scheduler.server_handshake_traffic_secret(context) and its siblings
server_handshake_traffic_secret(ks, context) ==
    [label |-> "s hs traffic", shared |-> ks, ctx |-> context]
client_handshake_traffic_secret_of(ks, context) ==
    [label |-> "c hs traffic", shared |-> ks, ctx |-> context]
server_application_traffic_secret_0(ks, context) ==
    [label |-> "s ap traffic", shared |-> ks, ctx |-> context]
client_application_traffic_secret_0(ks, context) ==
    [label |-> "c ap traffic", shared |-> ks, ctx |-> context]

\* TLSCipher(secret): a fresh cipher object, its sequence number at 0
NewCipher(secret) == [secret |-> secret, seq |-> 0]
\* cipher.verify_data(context)
verify_data(c, context) == [sec |-> c.secret, ctx |-> context, flip |-> 0]
\* cipher.tls_ciphertext(inner_plaintext): the record it returns
tls_ciphertext(c, ctype, content) ==
    [kind |-> "ciphertext", secret |-> c.secret, seq |-> c.seq,
     ctype |-> ctype, content |-> content]
\* the cipher after one seal or one open
Advance(c) == [c EXCEPT !.seq = @ + 1]
\* ContentType.change_cipher_spec.tls_plaintext(b"\x01")
change_cipher_spec_record ==
    [kind |-> "plaintext", secret |-> NoSecret, seq |-> 0,
     ctype |-> ContentType.change_cipher_spec, content |-> Bytes(1)]
\* bytes written to the transport with no record framing at all
RawBytes(content) ==
    [kind |-> "raw", secret |-> NoSecret, seq |-> 0,
     ctype |-> ContentType.invalid, content |-> content]

\* ------------------------------------------------------------------ state
VARIABLES
    handshake_context,   \* self.handshake_context
    server_finished,     \* self.server_finished
    peer_cipher,         \* self.peer_cipher (NoCipher: attribute not set)
    cipher,              \* self.cipher (NoCipher: attribute not set)
    key_scheduler,       \* local of tls_response: shared key (0: unbound)
    client_handshake_traffic_secret,  \* local of tls_response
    gen,                 \* the coroutine: "running" or "raised"
    error,               \* the exception that ended the coroutine
    output,              \* everything handed out: iofree.write and pack_*
    received,            \* history: one entry per record read
    npacks,              \* number of records the pack_* methods returned
    flight,              \* server: messages of its flight delivered in order
    unexpected,          \* server: other records delivered
    parser,              \* iofree.Parser(client.tls_response()) at byte level
    call                 \* one call of a function of tls.py: arguments, locals

vars == <<handshake_context, server_finished, peer_cipher, cipher,
          key_scheduler, client_handshake_traffic_secret, gen, error,
          output, received, npacks, flight, unexpected, parser, call>>

\* The byte-level parser and the single function calls are studied on their
\* own; in the specification of the client they stay as they are here.
NoParser == [at |-> "none"]
NoCall == [fn |-> "none"]

NoError == [exc |-> "none", level |-> 0, description |-> 0]
Raised(exc) == [exc |-> exc, level |-> 0, description |-> 0]

\* TLSClient.__init__ and the creation of the parser
InitClient ==
    /\ handshake_context = <<client_hello_data>>
    /\ server_finished = FALSE
    /\ peer_cipher = NoCipher
    /\ cipher = NoCipher
    /\ key_scheduler = 0
    /\ client_handshake_traffic_secret = NoSecret
    /\ gen = "running"
    /\ error = NoError
    /\ output = <<>>
    /\ received = <<>>
    /\ npacks = 0
    /\ flight = 0
    /\ unexpected = 0

Init == InitClient /\ parser = NoParser /\ call = NoCall

\* ------------------------------------------------------- unpack_handshake
\* ServerHello bodies the server may send: the shared key that
\* crypto_scalarmult yields with the key share of body v.
ServerHelloBodies == {1}
SharedKey(v) == v
\* NewSessionTicket bodies: unpack_new_session_ticket is handed the message
\* with its 4-byte header, so the fields it reads are shifted; body 1 still
\* parses, body 2 ends in an exception of ExtensionType.unpack_from.
NewSessionTicketBodies == {1, 2}

AppendingTypes == {HandshakeType.encrypted_extensions,
                   HandshakeType.certificate_request,
                   HandshakeType.certificate,
                   HandshakeType.certificate_verify}

\* The result of self.unpack_handshake(mv) in the current state: the new
\* handshake_context and server_finished, what it returns ("server_hello"
\* for the namespace of unpack_server_hello, "None" otherwise) and the
\* exception it raises ("none" when it returns).
unpack_handshake(mv) ==
    LET ret(ctx, fin, r, exc) ==
            [context |-> ctx, finished |-> fin, ret |-> r, exc |-> exc]
    IN  IF mv.ht = HandshakeType.server_hello
        THEN ret(Append(handshake_context, mv), server_finished,
                 "server_hello", "none")
        ELSE IF mv.ht \in AppendingTypes
        THEN ret(Append(handshake_context, mv), server_finished,
                 "None", "none")
        ELSE IF mv.ht = HandshakeType.finished
        THEN IF peer_cipher = NoCipher
             THEN ret(handshake_context, server_finished, "None",
                      "AttributeError")
             ELSE IF mv.vd = verify_data(peer_cipher, handshake_context)
             THEN ret(Append(handshake_context, mv), TRUE, "None", "none")
             ELSE ret(handshake_context, server_finished, "None",
                      "AssertionError")
        ELSE IF mv.ht = HandshakeType.new_session_ticket
        THEN ret(handshake_context, server_finished, "None",
                 IF mv.v = 1 THEN "none" ELSE "Exception")
        ELSE ret(handshake_context, server_finished, "None", "Exception")

\* ------------------------------------------------------------ tls_response
\* History entry for one record read by tls_response: outer content type,
\* inner content type (0 for a plaintext record), the content, and whether
\* the loop iteration ran to its end without raising.
Entry(ct, inner, content, ok) ==
    [ct |-> ct, inner |-> inner, content |-> content, ok |-> ok]

CanReceive == gen = "running"

\* The server's first flight as this client's peer would send it: the
\* outer content type and the message of the next record, given how many
\* were delivered in order.
FlightNext ==
    IF flight = 0
    THEN <<ContentType.handshake,
           Message(HandshakeType.server_hello, 1, NoVerifyData)>>
    ELSE IF flight = 1
    THEN <<ContentType.application_data,
           Message(HandshakeType.encrypted_extensions, 0, NoVerifyData)>>
    ELSE IF flight = 2
    THEN <<ContentType.application_data,
           Message(HandshakeType.certificate, 0, NoVerifyData)>>
    ELSE IF flight = 3
    THEN <<ContentType.application_data,
           Message(HandshakeType.certificate_verify, 0, NoVerifyData)>>
    ELSE IF flight = 4
    THEN <<ContentType.application_data,
           Message(HandshakeType.finished, 0,
                   [sec |-> peer_cipher.secret, ctx |-> handshake_context,
                    flip |-> 0])>>
    ELSE <<ContentType.invalid, Message(0, 0, NoVerifyData)>>

\* The server delivers one record: the next of its flight, or one of the
\* MaxUnexpected others.
Deliver(ct, content) ==
    IF <<ct, content>> = FlightNext
    THEN flight' = flight + 1 /\ UNCHANGED unexpected
    ELSE /\ unexpected < MaxUnexpected
         /\ unexpected' = unexpected + 1
         /\ UNCHANGED flight

\* The coroutine ends with an exception; nothing else changes beyond what
\* the caller states.
Raise(e) == gen' = "raised" /\ error' = e

\* head[0] == ContentType.alert: any alert raises Alert(level, description)
RecvAlert(level, description) ==
    /\ CanReceive
    /\ UNCHANGED <<parser, call>>
    /\ Deliver(ContentType.alert, AlertPayload(level, description))
    /\ Raise([exc |-> "Alert", level |-> level, description |-> description])
    /\ received' = Append(received,
            Entry(ContentType.alert, 0, AlertPayload(level, description),
                  FALSE))
    /\ UNCHANGED <<handshake_context, server_finished, peer_cipher, cipher,
                   key_scheduler, client_handshake_traffic_secret, output,
                   npacks>>

\* head[0] == ContentType.handshake: a plaintext handshake record
RecvHandshake(mv) ==
    LET r == unpack_handshake(mv)
        ok == r.exc = "none" /\ r.ret = "server_hello"
        ks == SharedKey(mv.v)
    IN  /\ CanReceive
        /\ UNCHANGED <<parser, call>>
        /\ Deliver(ContentType.handshake, mv)
        /\ handshake_context' = r.context
        /\ server_finished' = r.finished
        /\ received' = Append(received,
                Entry(ContentType.handshake, 0, mv, ok))
        /\ IF ok
           THEN /\ key_scheduler' = ks
                /\ peer_cipher' = NewCipher(
                       server_handshake_traffic_secret(ks, r.context))
                /\ client_handshake_traffic_secret' =
                       client_handshake_traffic_secret_of(ks, r.context)
                /\ UNCHANGED <<gen, error>>
           ELSE \* unpack_handshake raised, or it returned None and
                \* None.handshake_type raises AttributeError
                /\ Raise(Raised(IF r.exc = "none" THEN "AttributeError"
                                ELSE r.exc))
                /\ UNCHANGED <<key_scheduler, peer_cipher,
                               client_handshake_traffic_secret>>
        /\ UNCHANGED <<cipher, output, npacks>>
\* A record the server sealed: the secret and sequence number it used, the
\* inner content type and the content before it.
Sealed(secret, seq, inner, content) ==
    [secret |-> secret, seq |-> seq, inner |-> inner, content |-> content]

\* self.peer_cipher.decrypt(content, head) returns the plaintext exactly
\* when the record was sealed under the reader's secret and sequence number
decrypts(c, rec) == rec.secret = c.secret /\ rec.seq = c.seq

\* head[0] == ContentType.application_data: an encrypted record
RecvApplicationData(rec) ==
    LET r == unpack_handshake(rec.content)
        entry(ok) == Entry(ContentType.application_data, rec.inner,
                           rec.content, ok)
        fail(exc) ==
            /\ Raise(Raised(exc))
            /\ received' = Append(received, entry(FALSE))
            /\ UNCHANGED <<handshake_context, server_finished, cipher,
                           output>>
        \* the record could not be opened: its inner plaintext stays unknown
        unopened(exc) ==
            /\ Raise(Raised(exc))
            /\ received' = Append(received,
                    Entry(ContentType.application_data, 0, Bytes(0), FALSE))
            /\ UNCHANGED <<handshake_context, server_finished, cipher,
                           output, peer_cipher>>
        \* the writer that seals the client Finished
        hs_cipher == NewCipher(client_handshake_traffic_secret)
        client_finished == verify_data(hs_cipher, r.context)
        record == tls_ciphertext(hs_cipher, ContentType.handshake,
                      Message(HandshakeType.finished, 0, client_finished))
    IN  /\ CanReceive
        /\ UNCHANGED <<parser, call>>
        /\ Deliver(IF decrypts(peer_cipher, rec)
                   THEN ContentType.application_data
                   ELSE ContentType.invalid, rec.content)
        /\ UNCHANGED <<key_scheduler, client_handshake_traffic_secret,
                       npacks>>
        /\ IF peer_cipher = NoCipher
           THEN unopened("AttributeError")
           ELSE IF ~decrypts(peer_cipher, rec)
           THEN unopened("Exception")
           ELSE IF rec.inner = ContentType.handshake
           THEN IF r.exc # "none"
                THEN fail(r.exc) /\ peer_cipher' = Advance(peer_cipher)
                ELSE /\ handshake_context' = r.context
                     /\ received' = Append(received, entry(TRUE))
                     /\ UNCHANGED <<gen, error>>
                     /\ IF r.finished
                        THEN /\ output' = output \o
                                    <<change_cipher_spec_record, record>>
                             /\ peer_cipher' = NewCipher(
                                    server_application_traffic_secret_0(
                                        key_scheduler, r.context))
                             /\ server_finished' = FALSE
                             /\ cipher' = NewCipher(
                                    client_application_traffic_secret_0(
                                        key_scheduler, r.context))
                        ELSE /\ peer_cipher' = Advance(peer_cipher)
                             /\ server_finished' = r.finished
                             /\ UNCHANGED <<cipher, output>>
           ELSE IF rec.inner = ContentType.application_data
           THEN /\ output' = Append(output, RawBytes(rec.content))
                /\ peer_cipher' = Advance(peer_cipher)
                /\ received' = Append(received, entry(TRUE))
                /\ UNCHANGED <<handshake_context, server_finished, cipher,
                               gen, error>>
           ELSE IF rec.inner = ContentType.alert
           THEN /\ Raise([exc |-> "Alert", level |-> rec.content.v \div 256,
                          description |-> rec.content.v % 256])
                /\ peer_cipher' = Advance(peer_cipher)
                /\ received' = Append(received, entry(FALSE))
                /\ UNCHANGED <<handshake_context, server_finished, cipher,
                               output>>
           ELSE fail("Exception") /\ peer_cipher' = Advance(peer_cipher)

\* Mutant of RecvChangeCipherSpec: takes any content and restarts the
\* reader's sequence numbers
ChangeCipherSpecRestartsReader(content) ==
    /\ CanReceive
    /\ UNCHANGED <<parser, call>>
    /\ Deliver(ContentType.change_cipher_spec, Bytes(content))
    /\ received' = Append(received,
            Entry(ContentType.change_cipher_spec, 0, Bytes(content), TRUE))
    /\ peer_cipher' = NewCipher(peer_cipher.secret)
    /\ UNCHANGED <<gen, error, handshake_context, server_finished, cipher,
                   key_scheduler, client_handshake_traffic_secret, output,
                   npacks>>

\* head[0] == ContentType.change_cipher_spec
RecvChangeCipherSpec(content) ==
    /\ CanReceive
    /\ UNCHANGED <<parser, call>>
    /\ Deliver(ContentType.change_cipher_spec, Bytes(content))
    /\ received' = Append(received,
            Entry(ContentType.change_cipher_spec, 0, Bytes(content),
                  content = 1))
    /\ IF content = 1
       THEN UNCHANGED <<gen, error>>
       ELSE Raise(Raised("AssertionError"))
    /\ UNCHANGED <<handshake_context, server_finished, peer_cipher, cipher,
                   key_scheduler, client_handshake_traffic_secret, output,
                   npacks>>

\* A record whose legacy_record_version is not 0x0303 (ct = 0 here), or
\* whose content type is none of the four the loop knows
RecvOther(ct) ==
    /\ CanReceive
    /\ UNCHANGED <<parser, call>>
    /\ Deliver(ct, Bytes(0))
    /\ received' = Append(received, Entry(ct, 0, Bytes(0), FALSE))
    /\ Raise(Raised(IF ct = 0 THEN "AssertionError" ELSE "Exception"))
    /\ UNCHANGED <<handshake_context, server_finished, peer_cipher, cipher,
                   key_scheduler, client_handshake_traffic_secret, output,
                   npacks>>

\* Mutant of Pack: seals under the client handshake traffic secret
PackUnderHandshakeKey(ctype, content) ==
    /\ npacks < MaxPacks
    /\ UNCHANGED <<parser, call>>
    /\ IF cipher = NoCipher
       THEN UNCHANGED <<cipher, output, npacks>>
       ELSE /\ output' = Append(output,
                   tls_ciphertext(
                       [secret |-> client_handshake_traffic_secret,
                        seq |-> cipher.seq], ctype, content))
            /\ cipher' = Advance(cipher)
            /\ npacks' = npacks + 1
    /\ UNCHANGED <<handshake_context, server_finished, peer_cipher,
                   key_scheduler, client_handshake_traffic_secret, gen,
                   error, received, flight, unexpected>>

\* Mutant of Pack: seals with the reader's cipher object
PackUnderPeerCipher(ctype, content) ==
    /\ npacks < MaxPacks
    /\ UNCHANGED <<parser, call>>
    /\ IF cipher = NoCipher
       THEN UNCHANGED <<peer_cipher, output, npacks>>
       ELSE /\ output' = Append(output,
                            tls_ciphertext(peer_cipher, ctype, content))
            /\ peer_cipher' = Advance(peer_cipher)
            /\ npacks' = npacks + 1
    /\ UNCHANGED <<handshake_context, server_finished, cipher,
                   key_scheduler, client_handshake_traffic_secret, gen,
                   error, received, flight, unexpected>>

\* ------------------------------------------------------- the pack methods
\* What a pack method does with the inner plaintext it built: seal it under
\* self.cipher; when self.cipher was never set the call raises
\* AttributeError in the caller and returns nothing.
Pack(ctype, content) ==
    /\ npacks < MaxPacks
    /\ UNCHANGED <<parser, call>>
    /\ IF cipher = NoCipher
       THEN UNCHANGED <<cipher, output, npacks>>
       ELSE /\ output' = Append(output, tls_ciphertext(cipher, ctype, content))
            /\ cipher' = Advance(cipher)
            /\ npacks' = npacks + 1
    /\ UNCHANGED <<handshake_context, server_finished, peer_cipher,
                   key_scheduler, client_handshake_traffic_secret, gen,
                   error, received, flight, unexpected>>

\* TLSClient.pack_application_data(payload)
pack_application_data(payload) ==
    Pack(ContentType.application_data, Bytes(payload))

\* TLSClient.pack_alert(description, warning)
pack_alert(description, warning) ==
    Pack(ContentType.alert,
         AlertPayload(IF warning THEN AlertLevel.warning
                      ELSE AlertLevel.fatal, description))

\* ------------------------------------------------------------- the inputs
\* Alerts the server may send: (level, description)
AlertInputs == {<<AlertLevel.warning, AlertDescription.close_notify>>,
                <<AlertLevel.warning, AlertDescription.user_canceled>>,
                <<AlertLevel.fatal, AlertDescription.handshake_failure>>}

\* verify_data values a server Finished may carry: the value over the
\* current transcript, that value with one bit flipped, and the value over
\* the transcript without its last message
FinishedInputs ==
    LET good == verify_data(peer_cipher, handshake_context)
    IN  {Message(HandshakeType.finished, 0, good),
         Message(HandshakeType.finished, 0, [good EXCEPT !.flip = 1]),
         Message(HandshakeType.finished, 0,
                 verify_data(peer_cipher,
                     SubSeq(handshake_context, 1,
                            Len(handshake_context) - 1)))}

HandshakeInputs ==
    {Message(HandshakeType.server_hello, v, NoVerifyData) :
         v \in ServerHelloBodies}
    \cup {Message(t, 0, NoVerifyData) : t \in AppendingTypes}
    \cup FinishedInputs
    \cup {Message(HandshakeType.new_session_ticket, v, NoVerifyData) :
              v \in NewSessionTicketBodies}
    \cup {Message(HandshakeType.key_update,
                  KeyUpdateRequest.update_requested, NoVerifyData)}

\* handshake messages the server may put in a plaintext record: one for
\* each branch of unpack_handshake
PlaintextInputs ==
    {Message(HandshakeType.server_hello, v, NoVerifyData) :
         v \in ServerHelloBodies}
    \cup {Message(HandshakeType.encrypted_extensions, 0, NoVerifyData),
          Message(HandshakeType.finished, 0,
                  verify_data(peer_cipher, handshake_context)),
          Message(HandshakeType.new_session_ticket, 1, NoVerifyData),
          Message(HandshakeType.key_update,
                  KeyUpdateRequest.update_requested, NoVerifyData)}

\* application payloads (the bytes read as a number)
Payloads == {7}

\* inner plaintexts the server may seal: (inner content type, content)
InnerInputs ==
    {<<ContentType.handshake, m>> : m \in HandshakeInputs}
    \cup {<<ContentType.application_data, Bytes(p)>> : p \in Payloads}
    \cup {<<ContentType.alert, AlertPayload(a[1], a[2])>> : a \in AlertInputs}
    \cup {<<ContentType.change_cipher_spec, Bytes(1)>>}

\* the server seals under the key the client reads with, at the right
\* sequence number or one ahead of it
SealedInputs ==
    {Sealed(peer_cipher.secret, peer_cipher.seq, i[1], i[2]) :
        i \in InnerInputs}
    \cup {Sealed(peer_cipher.secret, peer_cipher.seq + 1,
                 ContentType.application_data, Bytes(p)) : p \in Payloads}

Next ==
    \/ \E a \in AlertInputs : RecvAlert(a[1], a[2])
    \/ \E mv \in PlaintextInputs : RecvHandshake(mv)
    \/ \E rec \in SealedInputs : RecvApplicationData(rec)
    \/ \E c \in {1, 2} : RecvChangeCipherSpec(c)
    \/ \E ct \in {0, 24} : RecvOther(ct)
    \/ \E p \in Payloads : pack_application_data(p)
    \/ pack_alert(AlertDescription.close_notify, TRUE)

Spec == Init /\ [][Next]_vars
\* ================================================================ bytes
\* int.from_bytes(b, "big") of a byte sequence (0 for the empty one)
RECURSIVE from_bytes(_)
from_bytes(b) ==
    IF b = <<>> THEN 0
    ELSE from_bytes(SubSeq(b, 1, Len(b) - 1)) * 256 + b[Len(b)]

\* n.to_bytes(length, "big")
RECURSIVE to_bytes(_, _)
to_bytes(n, length) ==
    IF length = 0 THEN <<>>
    ELSE Append(to_bytes(n \div 256, length - 1), n % 256)

\* pack_int(length, data)
pack_int(length, data) == to_bytes(Len(data), length) \o data

\* b"".join(parts)
RECURSIVE join(_)
join(parts) ==
    IF parts = <<>> THEN <<>> ELSE Head(parts) \o join(Tail(parts))

\* a Python slice b[i:j] with 0-based bounds already clipped by the caller's
\* use: everything from offset i (inclusive) to offset j (exclusive)
Slice(b, i, j) ==
    SubSeq(b, i + 1, IF j > Len(b) THEN Len(b) ELSE j)

\* ------------------------------------- handshake messages across records
\* Number of handshake messages in the stream, largest body, and number of
\* places where the stream is cut into records.
MaxMessages == 2
MaxBody == 2
MaxCuts == 2

Zeros(n) == [i \in 1..n |-> 0]

\* HandshakeType.pack_data(data) of a message with an all-zero body of n
\* bytes.  The types are those whose branch of unpack_handshake accepts such
\* a body: encrypted_extensions (ExtensionType.unpack_from reads a zero body
\* as server_name with no data) and certificate_request (not parsed).
HandshakeBytes(t, n) == <<t>> \o pack_int(3, Zeros(n))
WireMessages ==
    {HandshakeBytes(t, n) :
        t \in {HandshakeType.encrypted_extensions,
               HandshakeType.certificate_request},
        n \in 0..MaxBody}

\* The stream cut at the offsets in cuts (each strictly inside the stream)
RECURSIVE Pieces(_, _)
Pieces(stream, cuts) ==
    IF cuts = {} THEN <<stream>>
    ELSE LET c == CHOOSE x \in cuts : \A y \in cuts : x >= y
         IN  Append(Pieces(SubSeq(stream, 1, c), cuts \ {c}),
                    SubSeq(stream, c + 1, Len(stream)))

\* self.unpack_handshake(mv) on the bytes mv of one record, lines 563-591,
\* for the first bytes these streams can show: the new handshake_context
\* and the exception raised ("none" when it returns).
unpack_handshake_bytes(context, mv) ==
    LET handshake_type == mv[1]
        length == from_bytes(Slice(mv, 1, 4))
        handshake_data == Slice(mv, 4, Len(mv))
    IN  IF Len(handshake_data) # length
        THEN [context |-> context, exc |-> "AssertionError"]
        ELSE IF handshake_type = HandshakeType.server_hello
        THEN \* appended, then unpack_server_hello fails its version assert
             [context |-> Append(context, mv), exc |-> "AssertionError"]
        ELSE IF handshake_type \in AppendingTypes
        THEN [context |-> Append(context, mv), exc |-> "none"]
        ELSE [context |-> context, exc |-> "Exception"]

\* The server sends the messages in records cut at any offsets; the client
\* has the server handshake key and reads them as encrypted handshake
\* records.
InitHandshakeRecords ==
    /\ InitClient
    /\ parser = NoParser
    /\ \E k \in 1..MaxMessages :
       \E ms \in [1..k -> WireMessages] :
       \E cuts \in SUBSET (1..(Len(join(ms)) - 1)) :
           /\ Cardinality(cuts) <= MaxCuts
           /\ call = [fn |-> "unpack_handshake",
                      messages |-> ms,
                      records |-> Pieces(join(ms), cuts),
                      context |-> <<>>,
                      exc |-> "none"]

\* tls_response, lines 628-629: the next record's plaintext[:-1] is handed
\* to unpack_handshake; an exception ends the coroutine.
RecvHandshakeRecord ==
    LET r == unpack_handshake_bytes(call.context, Head(call.records))
    IN  /\ call.fn = "unpack_handshake"
        /\ call.exc = "none"
        /\ call.records # <<>>
        /\ call' = [call EXCEPT !.records = Tail(@),
                                !.context = r.context,
                                !.exc = r.exc]
        /\ UNCHANGED <<handshake_context, server_finished, peer_cipher,
                       cipher, key_scheduler,
                       client_handshake_traffic_secret, gen, error, output,
                       received, npacks, flight, unexpected, parser>>

SpecHandshakeRecords == InitHandshakeRecords /\ [][RecvHandshakeRecord]_vars

\* C11: however the stream of handshake messages is cut into records, no
\* record is rejected and, once all are read, the transcript has received
\* exactly the messages, one entry each, as when each arrives alone in one
\* record.
C11_HandshakeReassembled ==
    call.fn = "unpack_handshake" =>
        /\ call.exc = "none"
        /\ call.records = <<>> => call.context = call.messages

\* ---------------------------------------- the byte stream cut into reads
\* Number of records in the server's byte stream
MaxStreamRecords == 2

\* A record on the wire: type, legacy_record_version, 2-byte length, body
RecordBytes(ct, version, body) == <<ct>> \o version \o pack_int(2, body)

\* The records a fresh client handles without keys: change_cipher_spec
\* with content 1 (accepted) or 2 (assert fails), an alert (raised), and a
\* change_cipher_spec whose legacy_record_version is not 0x0303.
WireRecords ==
    {[ct |-> ContentType.change_cipher_spec, version |-> <<3, 3>>,
      body |-> <<1>>],
     [ct |-> ContentType.change_cipher_spec, version |-> <<3, 3>>,
      body |-> <<2>>],
     [ct |-> ContentType.alert, version |-> <<3, 3>>,
      body |-> <<AlertLevel.warning, AlertDescription.close_notify>>],
     [ct |-> ContentType.change_cipher_spec, version |-> <<3, 1>>,
      body |-> <<1>>]}

\* Mutant of iofree_read: a short read, returning what is buffered
short_read(input, nbytes) ==
    [ready |-> input # <<>>,
     data |-> Slice(input, 0, nbytes),
     rest |-> SubSeq(input, (IF nbytes > Len(input) THEN Len(input)
                             ELSE nbytes) + 1, Len(input))]

\* yield from iofree.read(nbytes), nbytes > 0: the coroutine stays
\* suspended until the parser's input buffer holds nbytes bytes, then gets
\* exactly those; the rest stays buffered.
iofree_read(input, nbytes) ==
    [ready |-> Len(input) >= nbytes,
     data |-> Slice(input, 0, nbytes),
     rest |-> SubSeq(input, nbytes + 1, Len(input))]

\* The dispatch of tls_response on one record, lines 602-605 and 666-669:
\* the exception it raises ("none" when the loop goes on).  The handshake
\* and application_data branches are RecvHandshake and
\* RecvApplicationData; these streams carry neither type.
Dispatch(head, content) ==
    IF head[1] = ContentType.alert THEN "Alert"
    ELSE IF head[1] = ContentType.change_cipher_spec
    THEN IF content = <<1>> THEN "none" ELSE "AssertionError"
    ELSE "Exception"

\* The coroutine tls_response run until it is suspended in a read or
\* raises.  at is its position: "head" in read(5), "content" in
\* read(length).
RECURSIVE Resume(_)
Resume(p) ==
    IF p.exc # "none" THEN p
    ELSE IF p.at = "head"
    THEN LET r == iofree_read(p.input, 5)
         IN  IF ~r.ready THEN p
             ELSE IF Slice(r.data, 1, 3) # <<3, 3>>
             THEN [p EXCEPT !.input = r.rest, !.exc = "AssertionError"]
             ELSE Resume([p EXCEPT !.input = r.rest, !.head = r.data,
                                   !.at = "content"])
    ELSE LET length == from_bytes(Slice(p.head, 3, 5))
             r == iofree_read(p.input, length)
             event == [ct |-> p.head[1], content |-> r.data]
         IN  IF ~r.ready THEN p
             ELSE Resume([p EXCEPT !.input = r.rest,
                                   !.events = Append(@, event),
                                   !.exc = Dispatch(p.head, r.data),
                                   !.at = "head"])

\* iofree.Parser(client.tls_response()): the coroutine runs to its first
\* read; the server's stream waits to be received, cut at any offsets.
InitParser ==
    /\ InitClient
    /\ call = NoCall
    /\ \E k \in 1..MaxStreamRecords :
       \E rs \in [1..k -> WireRecords] :
       LET stream == join([i \in 1..k |->
                            RecordBytes(rs[i].ct, rs[i].version, rs[i].body)])
       IN  \E cuts \in SUBSET (1..(Len(stream) - 1)) :
               /\ Cardinality(cuts) <= MaxCuts
               /\ parser = [at |-> "head", input |-> <<>>, head |-> <<>>,
                            events |-> <<>>, exc |-> "none",
                            records |-> rs,
                            chunks |-> Pieces(stream, cuts),
                            reads |-> 0]

\* server_data = sock.recv(4096); parser.send(server_data)
ParserSend ==
    /\ parser # NoParser
    /\ parser.exc = "none"
    /\ parser.chunks # <<>>
    /\ parser' = Resume([parser EXCEPT !.input = @ \o Head(parser.chunks),
                                       !.chunks = Tail(@),
                                       !.reads = @ + 1])
    /\ UNCHANGED <<handshake_context, server_finished, peer_cipher,
                   cipher, key_scheduler,
                   client_handshake_traffic_secret, gen, error, output,
                   received, npacks, flight, unexpected, call>>

SpecParser == InitParser /\ [][ParserSend]_vars

\* The records handled one at a time, each whole: the events and the
\* exception that ends the run.
RECURSIVE InOrder(_, _)
InOrder(rs, events) ==
    IF rs = <<>> THEN [events |-> events, exc |-> "none"]
    ELSE LET r == Head(rs)
             event == [ct |-> r.ct, content |-> r.body]
             exc == Dispatch(<<r.ct>>, r.body)
         IN  IF r.version # <<3, 3>>
             THEN [events |-> events, exc |-> "AssertionError"]
             ELSE IF exc # "none"
             THEN [events |-> Append(events, event), exc |-> exc]
             ELSE InOrder(Tail(rs), Append(events, event))

MaxFragmentLength == 16384
\* Payloads are up to about MaxFragments fragments long
MaxFragments == 3

\* The payloads tried are named by their length: byte i of a payload is
\* the byte at offset i, and a memoryview slice of it is [off, len].
PayloadLengths ==
    {n \in {k * MaxFragmentLength + d : k \in 0..MaxFragments, d \in -2..2} :
        n >= 0}

\* Mutant of Fragments: cuts a fragment off as soon as 2^14 bytes are left
FragmentsAtLeast(data, fragments) ==
    IF data.len >= MaxFragmentLength
    THEN Append(fragments, [off |-> data.off, len |-> MaxFragmentLength])
         \o <<[off |-> data.off + MaxFragmentLength,
               len |-> data.len - MaxFragmentLength]>>
    ELSE Append(fragments, data)

\* The while loop of tls_plaintext, lines 182-189
RECURSIVE Fragments(_, _)
Fragments(data, fragments) ==
    IF data.len > MaxFragmentLength
    THEN Fragments([off |-> data.off + MaxFragmentLength,
                    len |-> data.len - MaxFragmentLength],
                   Append(fragments,
                          [off |-> data.off, len |-> MaxFragmentLength]))
    ELSE Append(fragments, data)

\* self.tls_plaintext(data) for a payload of n bytes: the records joined,
\* each with its type, version, 2-byte length and fragment; or the failed
\* assert on an empty payload.
tls_plaintext(self, n) ==
    IF n = 0 THEN [exc |-> "AssertionError", records |-> <<>>]
    ELSE LET fragments == Fragments([off |-> 0, len |-> n], <<>>)
         IN  [exc |-> "none",
              records |->
                [i \in 1..Len(fragments) |->
                    [type |-> self,
                     version |-> IF i = 1 /\ self = ContentType.handshake
                                 THEN <<3, 1>> ELSE <<3, 3>>,
                     length |-> to_bytes(fragments[i].len, 2),
                     fragment |-> fragments[i]]]]

ContentTypes ==
    {ContentType.invalid, ContentType.change_cipher_spec, ContentType.alert,
     ContentType.handshake, ContentType.application_data}

InitPlaintext ==
    /\ InitClient
    /\ parser = NoParser
    /\ \E self \in ContentTypes : \E n \in PayloadLengths :
           call = [fn |-> "tls_plaintext", self |-> self, n |-> n,
                   returned |-> FALSE, exc |-> "none", records |-> <<>>]

CallTlsPlaintext ==
    LET r == tls_plaintext(call.self, call.n)
    IN  /\ call.fn = "tls_plaintext"
        /\ ~call.returned
        /\ call' = [call EXCEPT !.returned = TRUE, !.exc = r.exc,
                                !.records = r.records]
        /\ UNCHANGED <<handshake_context, server_finished, peer_cipher,
                       cipher, key_scheduler,
                       client_handshake_traffic_secret, gen, error, output,
                       received, npacks, flight, unexpected, parser>>

SpecPlaintext == InitPlaintext /\ [][CallTlsPlaintext]_vars

\* C13: tls_plaintext of n >= 1 bytes gives ceil(n / 2^14) records, each
\* fragment 1..2^14 bytes (its length field says so), the fragments in
\* order covering the payload exactly; 2^14 bytes give one record and
\* 2^14 + 1 give two; only the first record of a handshake payload has
\* version 0x0301, every other record 0x0303.
C13_PlaintextFragmentation ==
    (call.fn = "tls_plaintext" /\ call.returned /\ call.n >= 1) =>
        LET rs == call.records
        IN  /\ call.exc = "none"
            /\ Len(rs) = (call.n + MaxFragmentLength - 1)
                             \div MaxFragmentLength
            /\ \A i \in 1..Len(rs) :
                /\ rs[i].type = call.self
                /\ rs[i].fragment.len \in 1..MaxFragmentLength
                /\ from_bytes(rs[i].length) = rs[i].fragment.len
                /\ rs[i].fragment.off =
                       IF i = 1 THEN 0
                       ELSE rs[i-1].fragment.off + rs[i-1].fragment.len
                /\ rs[i].version =
                       IF i = 1 /\ call.self = ContentType.handshake
                       THEN <<3, 1>> ELSE <<3, 3>>
            /\ rs[Len(rs)].fragment.off + rs[Len(rs)].fragment.len = call.n
            /\ call.n = MaxFragmentLength => Len(rs) = 1
            /\ call.n = MaxFragmentLength + 1 => Len(rs) = 2

\* A handshake payload of 2^14 + 1 bytes came back as two records.
C13_TwoRecords ==
    /\ call.fn = "tls_plaintext"
    /\ call.returned
    /\ call.self = ContentType.handshake
    /\ call.n = MaxFragmentLength + 1
    /\ Len(call.records) = 2
    /\ call.records[2].version = <<3, 3>>

\* ------------------------------------------ ContentType.tls_inner_plaintext
\* random.randint(0, 10): the most zero bytes of padding
MaxPadding == 10
\* Longest content tried
MaxContent == 2

\* Content byte strings: zero and non-zero bytes in every position
Contents == UNION {[1..n -> {0, 7}] : n \in 0..MaxContent}

\* self.tls_inner_plaintext(content) when random.randint gives padding
tls_inner_plaintext(self, content, padding) ==
    content \o to_bytes(self, 1) \o Zeros(padding)

\* Mutant of rstrip: strips nothing
no_rstrip(b) ==
    b

\* bytes.rstrip(b"\x00")
RECURSIVE rstrip(_)
rstrip(b) ==
    IF b # <<>> /\ b[Len(b)] = 0 THEN rstrip(SubSeq(b, 1, Len(b) - 1))
    ELSE b

\* The receiver's opening of a decrypted record in tls_response, lines
\* 626-628: plaintext = (...).rstrip(b"\x00"); content_type =
\* ContentType.from_value(plaintext[-1]); the content is plaintext[:-1].
open_inner_plaintext(inner) ==
    LET plaintext == rstrip(inner)
    IN  IF plaintext = <<>>
        THEN [exc |-> "IndexError", content_type |-> 0, content |-> <<>>]
        ELSE IF plaintext[Len(plaintext)] \notin ContentTypes
        THEN [exc |-> "Exception", content_type |-> 0, content |-> <<>>]
        ELSE [exc |-> "none",
              content_type |-> plaintext[Len(plaintext)],
              content |-> SubSeq(plaintext, 1, Len(plaintext) - 1)]

InitInner ==
    /\ InitClient
    /\ parser = NoParser
    /\ \E self \in ContentTypes : \E content \in Contents :
           call = [fn |-> "tls_inner_plaintext", self |-> self,
                   content |-> content, at |-> "start", inner |-> <<>>,
                   opened |-> open_inner_plaintext(<<>>)]

\* The sender builds the inner plaintext with some padding
CallTlsInnerPlaintext ==
    /\ call.fn = "tls_inner_plaintext"
    /\ call.at = "start"
    /\ \E padding \in 0..MaxPadding :
           call' = [call EXCEPT
                       !.at = "built",
                       !.inner = tls_inner_plaintext(call.self, call.content,
                                                     padding)]
    /\ UNCHANGED <<handshake_context, server_finished, peer_cipher,
                   cipher, key_scheduler,
                   client_handshake_traffic_secret, gen, error, output,
                   received, npacks, flight, unexpected, parser>>

\* The receiver opens what decrypt returned, the same inner plaintext
OpenInnerPlaintext ==
    /\ call.fn = "tls_inner_plaintext"
    /\ call.at = "built"
    /\ call' = [call EXCEPT !.at = "opened",
                            !.opened = open_inner_plaintext(call.inner)]
    /\ UNCHANGED <<handshake_context, server_finished, peer_cipher,
                   cipher, key_scheduler,
                   client_handshake_traffic_secret, gen, error, output,
                   received, npacks, flight, unexpected, parser>>

SpecInner == InitInner /\ [][CallTlsInnerPlaintext \/ OpenInnerPlaintext]_vars

InnerRoundTrip ==
    /\ call.opened.exc = "none"
    /\ call.opened.content = call.content
    /\ call.opened.content_type = call.self

\* C14 (as stated): for every ContentType, content and padding 0..10, the
\* inner plaintext built by the sender and opened by the receiver gives
\* back the content and the content type.
C14_InnerRoundTripEveryType ==
    (call.fn = "tls_inner_plaintext" /\ call.at = "opened") =>
        InnerRoundTrip

\* C14 (amended): the same for every ContentType other than invalid (0),
\* whose type byte is itself stripped as padding.
C14_InnerRoundTripNonZeroType ==
    (call.fn = "tls_inner_plaintext" /\ call.at = "opened"
        /\ call.self # ContentType.invalid) =>
        InnerRoundTrip

\* Application data ending in a zero byte went through ten bytes of padding.
C14_PaddedZeroEndingContent ==
    /\ call.fn = "tls_inner_plaintext"
    /\ call.at = "opened"
    /\ call.self = ContentType.application_data
    /\ call.content = <<7, 0>>
    /\ Len(call.inner) = 3 + MaxPadding
    /\ InnerRoundTrip

\* ------------------------------------------------------- the ServerHello
CipherSuite == [TLS_AES_128_GCM_SHA256 |-> 4865,
                TLS_AES_256_GCM_SHA384 |-> 4866,
                TLS_CHACHA20_POLY1305_SHA256 |-> 4867,
                TLS_AES_128_CCM_SHA256 |-> 4868,
                TLS_AES_128_CCM_8_SHA256 |-> 4869]

NamedGroup == [secp256r1 |-> 23, secp384r1 |-> 24, secp521r1 |-> 25,
               x25519 |-> 29, x448 |-> 30,
               ffdhe2048 |-> 256, ffdhe3072 |-> 257, ffdhe4096 |-> 258,
               ffdhe6144 |-> 259, ffdhe8192 |-> 260]

\* MyIntEnum.from_value succeeds on the values of the enumeration
Values(enum) == {enum[k] : k \in DOMAIN enum}

\* CipherSuite.pack_all(): the suites the ClientHello offers
pack_all ==
    {CipherSuite.TLS_AES_128_GCM_SHA256, CipherSuite.TLS_AES_256_GCM_SHA384,
     CipherSuite.TLS_AES_128_CCM_SHA256,
     CipherSuite.TLS_CHACHA20_POLY1305_SHA256}

\* CipherSuite.get_cipher(data): the suites it returns a cipher for; for
\* any other value it raises Exception("bad cipher suite")
get_cipher ==
    {CipherSuite.TLS_AES_128_GCM_SHA256, CipherSuite.TLS_AES_256_GCM_SHA384,
     CipherSuite.TLS_AES_128_CCM_SHA256,
     CipherSuite.TLS_AES_128_CCM_8_SHA256,
     CipherSuite.TLS_CHACHA20_POLY1305_SHA256}

\* crypto_scalarmult takes a 32-byte point
ScalarBytes == 32

\* The key_share extension of a ServerHello: absent, or a group value and a
\* key_exchange of some length (its length field agreeing with it).
KeyShares ==
    {[present |-> FALSE, group |-> 0, length |-> 0]} \cup
    [present : {TRUE},
     group : {NamedGroup.x25519, NamedGroup.x448, NamedGroup.secp256r1,
              NamedGroup.ffdhe2048, 31},
     length : {ScalarBytes, 56}]

\* ServerHello bodies: legacy_version, cipher suite (the five known, one
\* unknown), legacy_compression_method, key_share.
ServerHellos ==
    [legacy_version : {<<3, 3>>, <<3, 1>>},
     cipher_suite : Values(CipherSuite) \cup {4870},
     legacy_compression_method : {0, 1},
     key_share : KeyShares]

\* self.unpack_server_hello(mv), lines 540-560, with the parse of the
\* key_share extension by NamedGroup.unpack_from: the exception raised, or
\* "none" when the namespace is returned.
unpack_server_hello(sh) ==
    IF sh.legacy_version # <<3, 3>> THEN "AssertionError"
    ELSE IF sh.cipher_suite \notin get_cipher THEN "Exception"
    ELSE IF sh.legacy_compression_method # 0 THEN "AssertionError"
    ELSE IF sh.key_share.present
            /\ sh.key_share.group \notin Values(NamedGroup)
    THEN "Exception"
    ELSE "none"

\* tls_response on a plaintext handshake record holding the ServerHello,
\* lines 606-624, after unpack_handshake returned the namespace: the
\* exception raised before the keys are installed, or "none".
server_hello_keys(sh) ==
    IF ~sh.key_share.present THEN "KeyError"
    ELSE IF sh.key_share.length # ScalarBytes THEN "TypeError"
    ELSE "none"

InitServerHello ==
    /\ InitClient
    /\ parser = NoParser
    /\ call = [fn |-> "server_hello", at |-> "start"]

\* The first record from the server is a plaintext handshake record with
\* a ServerHello of its choice.
RecvServerHello ==
    /\ call.fn = "server_hello"
    /\ call.at = "start"
    /\ gen = "running"
    /\ \E sh \in ServerHellos :
       LET mv == Message(HandshakeType.server_hello, sh, NoVerifyData)
           context == Append(handshake_context, mv)
           unpacked == unpack_server_hello(sh)
           exc == IF unpacked # "none" THEN unpacked
                  ELSE server_hello_keys(sh)
           ks == 1
       IN  /\ call' = [fn |-> "server_hello", at |-> "done", sh |-> sh]
           /\ handshake_context' = context
           /\ IF exc = "none"
              THEN /\ key_scheduler' = ks
                   /\ peer_cipher' = NewCipher(
                          server_handshake_traffic_secret(ks, context))
                   /\ client_handshake_traffic_secret' =
                          client_handshake_traffic_secret_of(ks, context)
                   /\ UNCHANGED <<gen, error>>
              ELSE /\ Raise(Raised(exc))
                   /\ UNCHANGED <<key_scheduler, peer_cipher,
                                  client_handshake_traffic_secret>>
    /\ UNCHANGED <<server_finished, cipher, output, received, npacks,
                   flight, unexpected, parser>>

SpecServerHello == InitServerHello /\ [][RecvServerHello]_vars

\* The ServerHello was accepted: the loop goes on and the server handshake
\* key is installed.
ServerHelloAccepted ==
    /\ call.fn = "server_hello"
    /\ call.at = "done"
    /\ gen = "running"
    /\ peer_cipher # NoCipher

\* C15: a ServerHello is accepted and handshake keys are derived only if
\* its cipher suite is one the ClientHello offered (here for a ServerHello
\* with an x25519 key share).
C15_SuiteWasOffered ==
    (ServerHelloAccepted /\ call.sh.key_share.group = NamedGroup.x25519) =>
        call.sh.cipher_suite \in pack_all

\* C16: the shared secret is computed and the server handshake key
\* installed only if the key_share of the ServerHello names x25519 (here
\* for a ServerHello with an offered cipher suite).
C16_GroupIsX25519 ==
    (ServerHelloAccepted /\ call.sh.cipher_suite \in pack_all) =>
        call.sh.key_share.group = NamedGroup.x25519

\* ------------------------------------------------------------ vocabulary
\* The handshake has completed: the server Finished was verified, the
\* client Finished emitted and the application keys installed (self.cipher
\* is assigned nowhere else).
HandshakeComplete == cipher # NoCipher
\* Connected: handshake complete and the coroutine still reading records.
Connected == HandshakeComplete /\ gen = "running"

Types(ctx) == [i \in 1..Len(ctx) |-> ctx[i].ht]
\* The handshake messages among the records of a history that were
\* processed to the end, in order.
RECURSIVE AcceptedHandshake(_)
AcceptedHandshake(h) ==
    IF h = <<>> THEN <<>>
    ELSE LET e == h[Len(h)]
             rest == AcceptedHandshake(SubSeq(h, 1, Len(h) - 1))
         IN  IF e.ok /\ e.content.ht # 0
             THEN Append(rest, e.content) ELSE rest
\* The transcripts after which a server Finished is due: with and without
\* the optional CertificateRequest.
BeforeFinished ==
    {<<HandshakeType.client_hello, HandshakeType.server_hello,
       HandshakeType.encrypted_extensions, HandshakeType.certificate,
       HandshakeType.certificate_verify>>,
     <<HandshakeType.client_hello, HandshakeType.server_hello,
       HandshakeType.encrypted_extensions, HandshakeType.certificate_request,
       HandshakeType.certificate, HandshakeType.certificate_verify>>}

\* The server's flight was delivered in order and made the transcript
\* ClientHello .. server Finished: the handshake completed as specified.
ProperHandshake ==
    /\ HandshakeComplete
    /\ Len(handshake_context) >= 6
    /\ Types(SubSeq(handshake_context, 1, 5)) \in BeforeFinished
    /\ handshake_context[6].ht = HandshakeType.finished

IsClientFinished(o) ==
    /\ o.kind = "ciphertext"
    /\ o.ctype = ContentType.handshake
    /\ o.content.ht = HandshakeType.finished
IsChangeCipherSpec(o) == o.ctype = ContentType.change_cipher_spec
IsCloseNotify(o) ==
    /\ o.kind = "ciphertext"
    /\ o.ctype = ContentType.alert
    /\ o.content = AlertPayload(AlertLevel.warning,
                                AlertDescription.close_notify)

\* This step reads one record; Read is its history entry.
Reads == Len(received') = Len(received) + 1
Read == received'[Len(received')]

\* --------------------------------------------------------------- claims
\* C1: a server Finished is accepted (the record's processing runs to its
\* end: server marked finished, client Finished emitted, application keys
\* installed) only when the handshake messages accepted before it are
\* ServerHello, EncryptedExtensions, [CertificateRequest,] Certificate,
\* CertificateVerify, in this order, after the ClientHello.
C1_FinishedOnlyInWaitFinished ==
    \A j \in 1..Len(received) :
        (/\ received[j].ok
         /\ received[j].inner = ContentType.handshake
         /\ received[j].content.ht = HandshakeType.finished)
            => <<HandshakeType.client_hello>>
                   \o Types(AcceptedHandshake(SubSeq(received, 1, j - 1)))
               \in BeforeFinished

\* C2: once the handshake has completed, the reader key and the writer key
\* are both derived from application traffic secrets, whatever is received.
C2_ApplicationKeysAfterHandshake ==
    ProperHandshake =>
        /\ peer_cipher.secret.label = "s ap traffic"
        /\ cipher.secret.label = "c ap traffic"

\* C3: a step that reads a server Finished whose verify_data differs from
\* the expected value emits exactly one record, a fatal decrypt_error
\* alert, ends the connection, emits no client Finished and installs no key.
C3_BadFinishedSendsDecryptError ==
    [][(/\ Reads
        /\ Types(handshake_context) \in BeforeFinished
        /\ Read.inner = ContentType.handshake
        /\ Read.content.ht = HandshakeType.finished
        /\ Read.content.vd # verify_data(peer_cipher, handshake_context))
       => /\ gen' = "raised"
          /\ Len(output') = Len(output) + 1
          /\ output'[Len(output')].ctype = ContentType.alert
          /\ output'[Len(output')].content =
                 AlertPayload(AlertLevel.fatal,
                              AlertDescription.decrypt_error)
          /\ cipher' = cipher
          /\ peer_cipher'.secret = peer_cipher.secret]_vars

\* C4: once a ServerHello has been accepted and the server handshake key
\* installed, a step that reads a plaintext handshake record rejects it and
\* leaves the transcript and the reader key as they were.
C4_ServerHelloOnlyOnce ==
    [][(/\ peer_cipher # NoCipher
        /\ Reads
        /\ Read.ct = ContentType.handshake)
       => /\ gen' = "raised"
          /\ handshake_context' = handshake_context
          /\ peer_cipher' = peer_cipher]_vars

\* C5: the client Finished is emitted at most once, the only
\* change_cipher_spec record emitted is the one record with content 0x01
\* right before that Finished, and nothing at all is emitted while the
\* server Finished has not been verified.
C5_FinishedOnceAfterOneCCS ==
    /\ Cardinality({i \in 1..Len(output) : IsClientFinished(output[i])}) <= 1
    /\ Cardinality({i \in 1..Len(output) : IsChangeCipherSpec(output[i])})
           <= 1
    /\ \A i \in 1..Len(output) :
           IsChangeCipherSpec(output[i]) =>
               /\ output[i].content = Bytes(1)
               /\ i < Len(output)
               /\ IsClientFinished(output[i + 1])
    /\ ~HandshakeComplete => output = <<>>

\* C6: a change_cipher_spec record read after an encrypted record of the
\* server's flight has been read is rejected.
C6_NoChangeCipherSpecAfterEncrypted ==
    \A i, j \in 1..Len(received) :
        (/\ i < j
         /\ received[i].ct = ContentType.application_data
         /\ received[i].ok
         /\ received[i].content.ht = HandshakeType.encrypted_extensions
         /\ received[j].ct = ContentType.change_cipher_spec)
            => ~received[j].ok

\* C7: in Connected, a step that reads KeyUpdate(update_requested) leaves
\* the client Connected, emits one record, a KeyUpdate(update_not_requested)
\* under the old writer key, and installs a new reader and a new writer
\* secret, the writer at sequence number 0.
C7_KeyUpdateAnswered ==
    [][(/\ Connected
        /\ ProperHandshake
        /\ Reads
        /\ Read.inner = ContentType.handshake
        /\ Read.content.ht = HandshakeType.key_update
        /\ Read.content.v = KeyUpdateRequest.update_requested)
       => /\ gen' = "running"
          /\ output' = Append(output,
                 tls_ciphertext(cipher, ContentType.handshake,
                     Message(HandshakeType.key_update,
                             KeyUpdateRequest.update_not_requested,
                             NoVerifyData)))
          /\ peer_cipher'.secret # peer_cipher.secret
          /\ cipher'.secret # cipher.secret
          /\ cipher'.seq = 0]_vars

\* C8: a step that reads a warning alert other than close_notify, in a
\* plaintext or in an opened encrypted record, keeps the coroutine reading
\* and changes neither the keys nor the transcript.
C8_WarningAlertIgnored ==
    [][(/\ Reads
        /\ \/ Read.ct = ContentType.alert
           \/ Read.inner = ContentType.alert
        /\ Read.content = AlertPayload(AlertLevel.warning,
                                       AlertDescription.user_canceled))
       => /\ gen' = "running"
          /\ handshake_context' = handshake_context
          /\ peer_cipher'.secret = peer_cipher.secret
          /\ cipher' = cipher]_vars

\* C9: once a fatal alert from the peer has been read, no step reads a
\* further record and no step adds an outbound record.
C9_NothingAfterFatalAlert ==
    [][(ProperHandshake
        /\ error.exc = "Alert" /\ error.level = AlertLevel.fatal)
       => (received' = received /\ output' = output)]_vars

\* C10: closing a Connected connection emits exactly one encrypted alert
\* record carrying 0x01 0x00, and once a close_notify is out no call of a
\* pack method adds a record.
C10_CloseNotifyOnceThenSilent ==
    [][/\ (Connected /\ ProperHandshake
           /\ pack_alert(AlertDescription.close_notify, TRUE)
           /\ \A i \in 1..Len(output) : ~IsCloseNotify(output[i]))
          => /\ Len(output') = Len(output) + 1
             /\ IsCloseNotify(output'[Len(output')])
       /\ (ProperHandshake
           /\ (\E i \in 1..Len(output) : IsCloseNotify(output[i]))
           /\ (\/ pack_alert(AlertDescription.close_notify, TRUE)
               \/ \E p \in Payloads : pack_application_data(p)))
          => output' = output]_vars

\* The records the step adds to the output
NewOutput == SubSeq(output', Len(output) + 1, Len(output'))
SealedOutput ==
    {i \in 1..Len(NewOutput) : NewOutput[i].kind = "ciphertext"}

\* C17: in each direction the records sealed or opened under one installed
\* key have sequence numbers 0, 1, 2, ...: a record is sealed with the
\* writer's current seq and the writer then moves on by one; the reader
\* moves on by one per record it opens; a newly installed key starts at 0
\* (also the client handshake key, used for one record between two
\* installations); a step that moves one direction on leaves the other
\* direction's cipher alone.
C17_SequenceNumbers ==
    [][/\ \A i \in SealedOutput :
            \/ /\ NewOutput[i].secret = cipher.secret
               /\ NewOutput[i].seq = cipher.seq
               /\ cipher' = Advance(cipher)
               /\ Cardinality(SealedOutput) = 1
            \/ /\ NewOutput[i].secret = client_handshake_traffic_secret
               /\ NewOutput[i].seq = 0
               /\ Cardinality(SealedOutput) = 1
               /\ cipher'.secret # NewOutput[i].secret
       /\ cipher' # cipher =>
            \/ cipher' = Advance(cipher) /\ SealedOutput # {}
            \/ cipher'.secret # cipher.secret /\ cipher'.seq = 0
       /\ peer_cipher' # peer_cipher =>
            \/ peer_cipher' = Advance(peer_cipher) /\ Reads
            \/ peer_cipher'.secret # peer_cipher.secret
               /\ peer_cipher'.seq = 0
       /\ cipher' = Advance(cipher) => peer_cipher' = peer_cipher
       /\ peer_cipher' = Advance(peer_cipher) => cipher' = cipher]_vars

\* Both directions have moved on under the application keys: two records
\* sealed, one opened.
C17_BothDirectionsAdvanced ==
    /\ ProperHandshake
    /\ cipher.secret.label = "c ap traffic"
    /\ cipher.seq = 2
    /\ peer_cipher.secret.label = "s ap traffic"
    /\ peer_cipher.seq = 1

\* A Finished computed under a client handshake traffic secret
IsOwnFinished(m) ==
    m.ht = HandshakeType.finished /\ m.vd.sec.label = "c hs traffic"
NotOwnFinished(m) == ~IsOwnFinished(m)
NotNewSessionTicket(m) == m.ht # HandshakeType.new_session_ticket

\* The transcript holds, after the ClientHello, the server's handshake
\* messages accepted so far in order, each once, and no NewSessionTicket.
TranscriptOfAccepted ==
    /\ handshake_context[1] = client_hello_data
    /\ SelectSeq(handshake_context, NotOwnFinished) =
           <<client_hello_data>> \o
           SelectSeq(AcceptedHandshake(received), NotNewSessionTicket)

\* C18: while no record has been rejected and the handshake, if complete,
\* went as specified, the transcript is the
\* ClientHello followed by every handshake message accepted so far, in
\* order, each once, without NewSessionTicket, and it holds the client's
\* own Finished once that has been emitted.
C18_TranscriptComplete ==
    (gen = "running" /\ (HandshakeComplete => ProperHandshake)) =>
        /\ TranscriptOfAccepted
        /\ \A i \in 1..Len(output) :
              IsClientFinished(output[i]) =>
                 \E j \in 1..Len(handshake_context) :
                    handshake_context[j] = output[i].content

\* ctx is the transcript as it stood up to and including a server Finished
ThroughServerFinished(ctx) ==
    /\ ctx # <<>>
    /\ Len(ctx) <= Len(handshake_context)
    /\ ctx = SubSeq(handshake_context, 1, Len(ctx))
    /\ ctx[Len(ctx)].ht = HandshakeType.finished

HandshakeSecretsSnapshot ==
    /\ peer_cipher.secret.label = "s hs traffic" =>
           Types(peer_cipher.secret.ctx) =
               <<HandshakeType.client_hello, HandshakeType.server_hello>>
    /\ client_handshake_traffic_secret # NoSecret =>
           Types(client_handshake_traffic_secret.ctx) =
               <<HandshakeType.client_hello, HandshakeType.server_hello>>

FinishedSnapshots ==
    /\ \A j \in 1..Len(handshake_context) :
          handshake_context[j].ht = HandshakeType.finished =>
             handshake_context[j].vd.ctx = SubSeq(handshake_context, 1, j - 1)
    /\ \A i \in 1..Len(output) :
          IsClientFinished(output[i]) =>
             ThroughServerFinished(output[i].content.vd.ctx)
    /\ cipher # NoCipher => ThroughServerFinished(cipher.secret.ctx)
    /\ peer_cipher.secret.label = "s ap traffic" =>
           ThroughServerFinished(peer_cipher.secret.ctx)

\* C19: the handshake traffic secrets are derived over exactly
\* [ClientHello, ServerHello]; the verify_data an accepted server Finished
\* was checked against covers the transcript before that Finished; the
\* client verify_data and both application traffic secrets cover the
\* transcript up to and including the server Finished.
C19_TranscriptSnapshots ==
    HandshakeSecretsSnapshot /\ FinishedSnapshots

\* Every sealed record of the output is under the key of its kind: a
\* client Finished under a client handshake traffic secret, anything else
\* under a client application traffic secret.
OutputKeys ==
    \A i \in 1..Len(output) :
        output[i].kind = "ciphertext" =>
            output[i].secret.label =
                IF IsClientFinished(output[i]) THEN "c hs traffic"
                ELSE "c ap traffic"

\* C20: the step that accepts a server Finished, and no other, installs
\* the application keys, and in that same step, before them, the client
\* Finished goes out under the client handshake traffic key (after a
\* change_cipher_spec); so no client Finished is ever under an application
\* key and no other record is ever under a handshake key.
C20_FinishedStepOrder ==
    [][/\ cipher'.secret # cipher.secret =>
            /\ Reads /\ Read.ok
            /\ Read.content.ht = HandshakeType.finished
            /\ Len(NewOutput) = 2
            /\ NewOutput[1] = change_cipher_spec_record
            /\ IsClientFinished(NewOutput[2])
            /\ NewOutput[2].secret = client_handshake_traffic_secret
            /\ NewOutput[2].seq = 0
            /\ cipher' = NewCipher(client_application_traffic_secret_0(
                             key_scheduler, handshake_context'))
            /\ peer_cipher' = NewCipher(server_application_traffic_secret_0(
                                  key_scheduler, handshake_context'))
       /\ (\E i \in 1..Len(NewOutput) : IsClientFinished(NewOutput[i])) =>
            cipher'.secret # cipher.secret
       /\ OutputKeys']_vars

\* The client Finished and, after it, an application data record are out.
C20_FinishedThenApplicationData ==
    /\ ProperHandshake
    /\ \E i, j \in 1..Len(output) :
          /\ i < j
          /\ IsClientFinished(output[i])
          /\ output[i].secret.label = "c hs traffic"
          /\ output[j].kind = "ciphertext"
          /\ output[j].ctype = ContentType.application_data
          /\ output[j].secret.label = "c ap traffic"

\* C21: a step that reads a change_cipher_spec record with content 0x01
\* accepts it and leaves the transcript, the reader key, the writer key,
\* the server-finished flag and the output as they were; a step that reads
\* one with any other content rejects it.
C21_ChangeCipherSpecIgnored ==
    [][(Reads /\ Read.ct = ContentType.change_cipher_spec) =>
          IF Read.content = Bytes(1)
          THEN /\ Read.ok
               /\ gen' = "running"
               /\ handshake_context' = handshake_context
               /\ peer_cipher' = peer_cipher
               /\ cipher' = cipher
               /\ server_finished' = server_finished
               /\ output' = output
          ELSE /\ ~Read.ok
               /\ gen' = "raised"]_vars

\* A change_cipher_spec was accepted while the server handshake key had
\* already opened a record, and the client still reads.
C21_ChangeCipherSpecMidHandshake ==
    /\ gen = "running"
    /\ peer_cipher.secret.label = "s hs traffic"
    /\ peer_cipher.seq >= 1
    /\ \E i \in 1..Len(received) :
          /\ received[i].ct = ContentType.change_cipher_spec
          /\ received[i].ok
          /\ i > 2

\* C22: a step that opens an encrypted record with inner content type
\* application_data before the handshake is complete (under the server
\* handshake key) rejects the record and delivers nothing.
C22_ApplicationDataOnlyConnected ==
    [][(/\ Reads
        /\ Read.ct = ContentType.application_data
        /\ Read.inner = ContentType.application_data
        /\ ~HandshakeComplete)
       => (~Read.ok /\ output' = output)]_vars

\* Everything in the output is the change_cipher_spec record or a sealed
\* record (the ClientHello record is sent before the parser exists).
OutputProtected ==
    \A i \in 1..Len(output) :
        \/ output[i] = change_cipher_spec_record
        \/ output[i].kind = "ciphertext"

\* C23: what the client hands to the transport is the change_cipher_spec
\* record or a sealed record, whatever the server sends; here from a
\* handshake completed as specified onwards, so that application data
\* read from the peer does not go out in the clear.
C23_NothingInTheClear ==
    [][(ProperHandshake /\ OutputProtected) => OutputProtected']_vars
====
